---- MODULE Spec2Model ----
(***************************************************************************)
(* Ball-in-a-maze: the maze generator (generateMaze) and the collision     *)
(* physics step (updateBall / resetBall).                                  *)
(*                                                                         *)
(* Numbers.  The source computes in IEEE doubles; the model computes in    *)
(* fixed point: lengths are integer multiples of a length unit LU, times   *)
(* integer multiples of a time unit TU, velocities integer LU/TU.  Every   *)
(* operation of updateBall is then exact except the friction product and   *)
(* the diagonal push of the penetration pass, which round to the nearest   *)
(* unit.  A scenario fixes LU and TU by giving cellSize, the Config and    *)
(* the dt values in these units.                                           *)
(***************************************************************************)
EXTENDS Integers, Sequences, FiniteSets, TLC

VARIABLES
  sc,      \* the scenario: maze, config, cellSize and the inputs drawn
  ball,    \* the Ball updateBall mutates
  result,  \* what the last updateBall call returned
  called,  \* whether updateBall has been called yet
  \* main.ts, the game's state besides the ball
  won,          \* the won flag
  message,      \* "oof" while the message shows, "none" for null
  messageLeft,  \* messageEndTime - time at the last frame, in TU, 0 at least
  inputManager, \* the InputManager: input, isDragging, startPos, orientationEnabled
  \* generateMaze(seed, size, holeCount)
  pc,             \* "carve", "holes", "done"; "idle" when no call is running
  size,
  holeCount,
  cells,          \* cells[y][x] = [x, y, walls]
  stack,          \* the backtracker's stack of cells, top last
  visited,        \* the set of visited cell keys
  holes,          \* the holes placed so far
  usedPositions,  \* the keys no further hole may take
  generated,      \* the Maze generateMaze returned
  seed,           \* the seed argument
  rng,            \* the state of the generator seedRNG(seed) returned
  first,          \* what an earlier call with the same arguments returned
  variant         \* which generateMaze runs: "offsets" (part_000) or "plain" (maze.ts)

loopVars == <<won, message, messageLeft, inputManager>>
physVars == <<sc, ball, result, called, loopVars>>
genVars == <<pc, size, holeCount, cells, stack, visited, holes, usedPositions, generated,
             seed, rng, first, variant>>
vars == <<physVars, genVars>>

\* ------------------------------------------------------------------ bounds
\* Largest speed (LU/TU, per axis) explored in the capped scenarios.
MaxSpeed == 6
\* Largest grid generateMaze is asked for, and largest holeCount.
MaxSize == 3
MaxHoles == 2
MaxSeed == 3

\* ------------------------------------------------------------- arithmetic
Abs(a) == IF a < 0 THEN -a ELSE a
Sgn(a) == IF a < 0 THEN -1 ELSE IF a > 0 THEN 1 ELSE 0
Min(a, b) == IF a <= b THEN a ELSE b
Max(a, b) == IF a >= b THEN a ELSE b
\* Math.floor(a / b) and Math.ceil(a / b) for b > 0
Floor(a, b) == a \div b
Ceil(a, b) == -((-a) \div b)
\* n / d rounded to the nearest integer (the fixed-point product)
RoundDiv(n, d) == IF n >= 0 THEN (2 * n + d) \div (2 * d)
                  ELSE -((2 * (-n) + d) \div (2 * d))
\* cellSize * ratio for a ratio <<num, den>>
Ratio(cellSize, ratio) == (cellSize * ratio[1]) \div ratio[2]

\* seedRNG: a 32-bit word is kept as its two 16-bit halves
Word(hi, lo) == [hi |-> hi, lo |-> lo]

\* 2^k for k in 0..16
Pow2(k) == <<1, 2, 4, 8, 16, 32, 64, 128, 256, 512, 1024, 2048, 4096, 8192,
             16384, 32768, 65536>>[k + 1]

\* bit i of a ^ b and of a | b, in place
XorBit(a, b, i) == ((a \div Pow2(i) + b \div Pow2(i)) % 2) * Pow2(i)

OrBit(a, b, i) ==
  (IF (a \div Pow2(i)) % 2 = 1 \/ (b \div Pow2(i)) % 2 = 1 THEN 1 ELSE 0) * Pow2(i)

\* a ^ b and a | b on 16 bits
Xor16(a, b) ==
  XorBit(a, b, 0) + XorBit(a, b, 1) + XorBit(a, b, 2) + XorBit(a, b, 3)
  + XorBit(a, b, 4) + XorBit(a, b, 5) + XorBit(a, b, 6) + XorBit(a, b, 7)
  + XorBit(a, b, 8) + XorBit(a, b, 9) + XorBit(a, b, 10) + XorBit(a, b, 11)
  + XorBit(a, b, 12) + XorBit(a, b, 13) + XorBit(a, b, 14) + XorBit(a, b, 15)

Or16(a, b) ==
  OrBit(a, b, 0) + OrBit(a, b, 1) + OrBit(a, b, 2) + OrBit(a, b, 3)
  + OrBit(a, b, 4) + OrBit(a, b, 5) + OrBit(a, b, 6) + OrBit(a, b, 7)
  + OrBit(a, b, 8) + OrBit(a, b, 9) + OrBit(a, b, 10) + OrBit(a, b, 11)
  + OrBit(a, b, 12) + OrBit(a, b, 13) + OrBit(a, b, 14) + OrBit(a, b, 15)

\* a ^ b
Xor32(a, b) == Word(Xor16(a.hi, b.hi), Xor16(a.lo, b.lo))

\* c | w for a constant c below 2^16
OrLow(c, w) == Word(w.hi, Or16(c, w.lo))

\* (a + b) mod 2^32
Add32(a, b) ==
  LET lo == a.lo + b.lo
  IN Word((a.hi + b.hi + lo \div Pow2(16)) % Pow2(16), lo % Pow2(16))

\* w >>> k, 0 < k < 16
Shr(w, k) ==
  Word(w.hi \div Pow2(k), w.lo \div Pow2(k) + (w.hi % Pow2(k)) * Pow2(16 - k))

\* the 32-bit product of two 16-bit numbers
Mul16(a, b) ==
  LET a1 == a \div 256
      a0 == a % 256
      b1 == b \div 256
      b0 == b % 256
      mid == a1 * b0 + a0 * b1
      low == a0 * b0 + (mid % 256) * 256
  IN Word((a1 * b1 + mid \div 256 + low \div Pow2(16)) % Pow2(16), low % Pow2(16))

\* Math.imul(a, b)
Imul(a, b) ==
  LET ll == Mul16(a.lo, b.lo)
      cross == (Mul16(a.hi, b.lo).lo + Mul16(a.lo, b.hi).lo) % Pow2(16)
  IN Word((ll.hi + cross) % Pow2(16), ll.lo)

\* state = (state + 0x6d2b79f5) | 0
Advance(state) == Add32(state, Word(27947, 31221))

\* the 32 bits that next() divides by 4294967296
Temper(state) ==
  LET t1 == Imul(Xor32(state, Shr(state, 15)), OrLow(1, state))
      t2 == Xor32(Add32(t1, Imul(Xor32(t1, Shr(t1, 7)), OrLow(61, t1))), t1)
  IN Xor32(t2, Shr(t2, 14))

\* the generator of a call whose draws are left open: every sequence of draws
\* some seed could give
AnySeed == [seeded |-> FALSE, state |-> Word(0, 0)]

\* the generator is shared by every call: seeded by the first one only
seedRNGShared(s) ==
  IF rng.seeded THEN rng ELSE [seeded |-> TRUE, state |-> Word(s \div Pow2(16), s % Pow2(16))]

\* seedRNG(seed): let state = seed
seedRNG(s) == [seeded |-> TRUE, state |-> Word(s \div Pow2(16), s % Pow2(16))]

\* rng.nextInt(max) = Math.floor(next() * max): the value and the generator
\* after the draw
nextInt(r, max) ==
  IF r.seeded
  THEN LET st == Advance(r.state)
           u == Temper(st)
       IN {[v |-> (u.hi * max + (u.lo * max) \div Pow2(16)) \div Pow2(16),
            rng |-> [r EXCEPT !.state = st]]}
  ELSE {[v |-> i, rng |-> r] : i \in 0..max-1}

\* rng.nextFloat(-0.3, 0.3), in tenths of a cell
Offsets == {-3, 3}

\* rng.nextFloat(-0.3, 0.3) = -0.3 + next() * 0.6, rounded to tenths of a cell
nextFloat(r) ==
  IF r.seeded
  THEN LET st == Advance(r.state)
           u == Temper(st)
       IN {[v |-> ((6 * u.hi + 32768 + (6 * u.lo) \div Pow2(16)) \div Pow2(16)) - 3,
            rng |-> [r EXCEPT !.state = st]]}
  ELSE {[v |-> o, rng |-> r] : o \in Offsets}

\* no earlier call
NoCall == [called |-> FALSE, maze |-> <<>>, rng |-> AnySeed]

\* ------------------------------------------------------------------ mazes
NoWalls == [north |-> FALSE, east |-> FALSE, south |-> FALSE, west |-> FALSE]
AllWalls == [north |-> TRUE, east |-> TRUE, south |-> TRUE, west |-> TRUE]

\* createTestMaze(size): no wall closed, no hole, goal bottom-right
createTestMaze(n) ==
  [size |-> n,
   cells |-> [y \in 0..n-1 |-> [x \in 0..n-1 |->
                 [x |-> x, y |-> y, walls |-> NoWalls]]],
   holes |-> <<>>,
   goal |-> [x |-> n - 1, y |-> n - 1]]

\* maze.cells[y][x].walls.<w> = v
SetWall(maze, x, y, w, v) ==
  [maze EXCEPT !.cells[y][x].walls[w] = v]

\* ---------------------------------------------------------------- physics
\* circleLineCollision for the axis-parallel segments updateBall passes
\* (x1 <= x2, y1 <= y2, one of dx, dy zero): projecting onto the segment and
\* clamping t to [0,1] is clamping the centre's coordinate to the segment.
\* interior: the closest point is strictly inside the segment (0 < t < 1).
circleLineCollision(cx, cy, radius, x1, y1, x2, y2) ==
  LET closestX == Max(x1, Min(x2, cx))
      closestY == Max(y1, Min(y2, cy))
      distX == cx - closestX
      distY == cy - closestY
      distSq == distX * distX + distY * distY
  IN [collides |-> distSq <= radius * radius,
      closestX |-> closestX, closestY |-> closestY,
      distX |-> distX, distY |-> distY, distSq |-> distSq,
      interior |-> IF x1 = x2 THEN y1 < cy /\ cy < y2 ELSE x1 < cx /\ cx < x2]

\* d * radius / sqrt(distSq), to the nearest unit: the component of the point
\* at distance radius from the closest point along the normal (nx, ny).
ScaleToRadius(d, distSq, radius) ==
  IF d = 0 THEN 0
  ELSE IF d * d = distSq THEN Sgn(d) * radius
  ELSE LET a == Abs(d)
           k == CHOOSE k \in 0..radius :
                  /\ k = 0 \/ (2*k - 1) * (2*k - 1) * distSq <= 4 * a * a * radius * radius
                  /\ k = radius \/ (2*k + 1) * (2*k + 1) * distSq > 4 * a * a * radius * radius
       IN Sgn(d) * k

\* Integrate with the friction left out when no time has passed
IntegrateNoFrictionAtZero(b, input, config, dt) ==
  IF dt = 0 THEN b
  ELSE [b EXCEPT
          !.vx = RoundDiv((b.vx + input.tiltX * config.GRAVITY * dt) * config.FRICTION[1],
                          config.FRICTION[2]),
          !.vy = RoundDiv((b.vy + input.tiltY * config.GRAVITY * dt) * config.FRICTION[1],
                          config.FRICTION[2])]

\* updateBall lines 76-86: gravity from tilt, then friction once per call
Integrate(b, input, config, dt) ==
  [b EXCEPT
     !.vx = RoundDiv((b.vx + input.tiltX * config.GRAVITY * dt) * config.FRICTION[1],
                     config.FRICTION[2]),
     !.vy = RoundDiv((b.vy + input.tiltY * config.GRAVITY * dt) * config.FRICTION[1],
                     config.FRICTION[2])]

\* HitsEast without the wall flag: every cell boundary stops the ball
HitsEastAnyCell(cell, b, oldX, ballRadius, wallX) ==
  b.vx > 0 /\ oldX + ballRadius <= wallX /\ b.x + ballRadius > wallX

\* lines 112-118: the east wall of cell x stops a ball moving east
HitsEast(cell, b, oldX, ballRadius, wallX) ==
  b.vx > 0 /\ cell.walls.east /\ oldX + ballRadius <= wallX /\ b.x + ballRadius > wallX
\* lines 122-128
HitsWest(cell, b, oldX, ballRadius, wallX) ==
  b.vx < 0 /\ cell.walls.west /\ oldX - ballRadius >= wallX /\ b.x - ballRadius < wallX
\* lines 150-156
HitsSouth(cell, b, oldY, ballRadius, wallY) ==
  b.vy > 0 /\ cell.walls.south /\ oldY + ballRadius <= wallY /\ b.y + ballRadius > wallY
\* lines 160-166
HitsNorth(cell, b, oldY, ballRadius, wallY) ==
  b.vy < 0 /\ cell.walls.north /\ oldY - ballRadius >= wallY /\ b.y - ballRadius < wallY

\* lines 106-130: the for loop over x, ascending, leaving at the first hit
RECURSIVE SweepXLoop(_, _, _, _, _, _, _, _)
SweepXLoop(x, xEnd, b, maze, cellSize, ballRadius, oldX, cellY) ==
  IF x >= xEnd THEN b
  ELSE IF x < 0 \/ x >= maze.size \/ cellY < 0 \/ cellY >= maze.size
  THEN SweepXLoop(x + 1, xEnd, b, maze, cellSize, ballRadius, oldX, cellY)
  ELSE LET cell == maze.cells[cellY][x] IN
       IF HitsEast(cell, b, oldX, ballRadius, (x + 1) * cellSize)
       THEN [b EXCEPT !.x = (x + 1) * cellSize - ballRadius, !.vx = 0]
       ELSE IF HitsWest(cell, b, oldX, ballRadius, x * cellSize)
       THEN [b EXCEPT !.x = x * cellSize + ballRadius, !.vx = 0]
       ELSE SweepXLoop(x + 1, xEnd, b, maze, cellSize, ballRadius, oldX, cellY)

\* lines 95-131: move x, then test the walls of the ball's row
SweepX(b0, maze, cellSize, ballRadius, dt) ==
  LET oldX == b0.x
      b == [b0 EXCEPT !.x = b0.x + b0.vx * dt]
      minX == Min(oldX - ballRadius, b.x - ballRadius)
      maxX == Max(oldX + ballRadius, b.x + ballRadius)
      cellY == Floor(b.y, cellSize)
  IN IF b.vx # 0
     THEN SweepXLoop(Floor(minX, cellSize), Ceil(maxX, cellSize), b, maze,
                     cellSize, ballRadius, oldX, cellY)
     ELSE b

\* lines 144-168
RECURSIVE SweepYLoop(_, _, _, _, _, _, _, _)
SweepYLoop(y, yEnd, b, maze, cellSize, ballRadius, oldY, cellX) ==
  IF y >= yEnd THEN b
  ELSE IF y < 0 \/ y >= maze.size \/ cellX < 0 \/ cellX >= maze.size
  THEN SweepYLoop(y + 1, yEnd, b, maze, cellSize, ballRadius, oldY, cellX)
  ELSE LET cell == maze.cells[y][cellX] IN
       IF HitsSouth(cell, b, oldY, ballRadius, (y + 1) * cellSize)
       THEN [b EXCEPT !.y = (y + 1) * cellSize - ballRadius, !.vy = 0]
       ELSE IF HitsNorth(cell, b, oldY, ballRadius, y * cellSize)
       THEN [b EXCEPT !.y = y * cellSize + ballRadius, !.vy = 0]
       ELSE SweepYLoop(y + 1, yEnd, b, maze, cellSize, ballRadius, oldY, cellX)

\* lines 133-169: move y, then test the walls of the column of the
\* (already clamped) x; oldY is the y at entry
SweepY(b0, maze, cellSize, ballRadius, dt) ==
  LET oldY == b0.y
      b == [b0 EXCEPT !.y = b0.y + b0.vy * dt]
      minY == Min(oldY - ballRadius, b.y - ballRadius)
      maxY == Max(oldY + ballRadius, b.y + ballRadius)
      cellX == Floor(b.x, cellSize)
  IN IF b.vy # 0
     THEN SweepYLoop(Floor(minY, cellSize), Ceil(maxY, cellSize), b, maze,
                     cellSize, ballRadius, oldY, cellX)
     ELSE b

\* lines 171-187: the four world-bounds tests, in order
BoundsCheck(b0, maze, cellSize, ballRadius) ==
  LET world == maze.size * cellSize
      b1 == IF b0.x - ballRadius < 0 THEN [b0 EXCEPT !.x = ballRadius, !.vx = 0] ELSE b0
      b2 == IF b1.x + ballRadius > world
            THEN [b1 EXCEPT !.x = world - ballRadius, !.vx = 0] ELSE b1
      b3 == IF b2.y - ballRadius < 0 THEN [b2 EXCEPT !.y = ballRadius, !.vy = 0] ELSE b2
      b4 == IF b3.y + ballRadius > world
            THEN [b3 EXCEPT !.y = world - ballRadius, !.vy = 0] ELSE b3
  IN b4

\* PenWall zeroing both velocity components on a push
PenWallStopsBoth(b, ballRadius, x1, y1, x2, y2, axis) ==
  LET col == circleLineCollision(b.x, b.y, ballRadius, x1, y1, x2, y2)
      stopped == [b EXCEPT !.vx = 0, !.vy = 0]
  IN IF ~col.collides \/ col.distSq >= ballRadius * ballRadius
     THEN {b}
     ELSE IF col.distSq = 0
     THEN IF col.interior
          THEN IF x1 = x2
               THEN {stopped, [stopped EXCEPT !.y = b.y + ballRadius],
                              [stopped EXCEPT !.y = b.y - ballRadius]}
               ELSE {stopped, [stopped EXCEPT !.x = b.x + ballRadius],
                              [stopped EXCEPT !.x = b.x - ballRadius]}
          ELSE {stopped}
     ELSE {[stopped EXCEPT
              !.x = col.closestX + ScaleToRadius(col.distX, col.distSq, ballRadius),
              !.y = col.closestY + ScaleToRadius(col.distY, col.distSq, ballRadius)]}

\* lines 202-285, one wall of one cell: the circle against the segment
\* (x1,y1)-(x2,y2); axis is the velocity component the branch zeroes.
\* The result is the set of balls the step can leave.  When the centre lies
\* on the segment strictly between its ends, the doubles closestX/closestY
\* (x1 + t*dx with t = proj/lengthSq) reproduce the centre only up to
\* rounding: dist is then 0 (normal (0,0), no displacement) or a few ulps
\* (normal = a unit vector along the segment, overlap = radius to within
\* rounding), so all three outcomes are possible.
PenWall(b, ballRadius, x1, y1, x2, y2, axis) ==
  LET col == circleLineCollision(b.x, b.y, ballRadius, x1, y1, x2, y2)
      stopped == [b EXCEPT ![axis] = 0]
  IN IF ~col.collides \/ col.distSq >= ballRadius * ballRadius
     THEN {b}
     ELSE IF col.distSq = 0
     THEN IF col.interior
          THEN IF x1 = x2
               THEN {stopped, [stopped EXCEPT !.y = b.y + ballRadius],
                              [stopped EXCEPT !.y = b.y - ballRadius]}
               ELSE {stopped, [stopped EXCEPT !.x = b.x + ballRadius],
                              [stopped EXCEPT !.x = b.x - ballRadius]}
          ELSE {stopped}
     ELSE {[stopped EXCEPT
              !.x = col.closestX + ScaleToRadius(col.distX, col.distSq, ballRadius),
              !.y = col.closestY + ScaleToRadius(col.distY, col.distSq, ballRadius)]}

\* lines 197-285: the four walls of cell (cx, cy), north, south, west, east
PenCell(bs, maze, cx, cy, cellSize, ballRadius) ==
  LET cell == maze.cells[cy][cx]
      cellX == cx * cellSize
      cellY == cy * cellSize
      n == IF cell.walls.north
           THEN UNION {PenWall(b, ballRadius, cellX, cellY, cellX + cellSize, cellY, "vy") : b \in bs}
           ELSE bs
      s == IF cell.walls.south
           THEN UNION {PenWall(b, ballRadius, cellX, cellY + cellSize,
                               cellX + cellSize, cellY + cellSize, "vy") : b \in n}
           ELSE n
      w == IF cell.walls.west
           THEN UNION {PenWall(b, ballRadius, cellX, cellY, cellX, cellY + cellSize, "vx") : b \in s}
           ELSE s
      e == IF cell.walls.east
           THEN UNION {PenWall(b, ballRadius, cellX + cellSize, cellY,
                               cellX + cellSize, cellY + cellSize, "vx") : b \in w}
           ELSE w
  IN e

\* lines 195-196: cy outer, cx inner, both ascending; k counts the cells done
RECURSIVE PenLoop(_, _, _, _, _, _, _, _, _)
PenLoop(k, bs, maze, minCellX, maxCellX, minCellY, maxCellY, cellSize, ballRadius) ==
  LET w == maxCellX - minCellX + 1
      h == maxCellY - minCellY + 1
  IN IF w <= 0 \/ h <= 0 \/ k >= w * h THEN bs
     ELSE PenLoop(k + 1,
                  PenCell(bs, maze, minCellX + (k % w), minCellY + (k \div w),
                          cellSize, ballRadius),
                  maze, minCellX, maxCellX, minCellY, maxCellY, cellSize, ballRadius)

\* lines 189-287: the cell range is fixed from the ball at entry
Penetration(b, maze, cellSize, ballRadius) ==
  PenLoop(0, {b}, maze,
          Max(0, Floor(b.x - ballRadius, cellSize)),
          Min(maze.size - 1, Floor(b.x + ballRadius, cellSize)),
          Max(0, Floor(b.y - ballRadius, cellSize)),
          Min(maze.size - 1, Floor(b.y + ballRadius, cellSize)),
          cellSize, ballRadius)

\* Math.sqrt(dx^2 + dy^2) < cellSize * ratio, with twice the radius integral;
\* the first two conjuncts follow from the third and keep the squares small
WithinRadius(dx, dy, cellSize, ratio) ==
  LET twoR == (2 * cellSize * ratio[1]) \div ratio[2]
  IN /\ 2 * Abs(dx) < twoR
     /\ 2 * Abs(dy) < twoR
     /\ 4 * (dx * dx + dy * dy) < twoR * twoR

\* CellCentre without the half cell: the cell's corner
CellCorner(c, cellSize) == c * cellSize

\* (hole.x + 0.5) * cellSize
CellCentre(c, cellSize) == ((2 * c + 1) * cellSize) \div 2

\* lines 294-302
InGoal(b, maze, config, cellSize) ==
  WithinRadius(b.x - CellCentre(maze.goal.x, cellSize),
               b.y - CellCentre(maze.goal.y, cellSize),
               cellSize, config.GOAL_RADIUS_RATIO)

\* lines 306-312, one hole
InHole(b, hole, config, cellSize) ==
  WithinRadius(b.x - CellCentre(hole.x, cellSize),
               b.y - CellCentre(hole.y, cellSize),
               cellSize, config.HOLE_RADIUS_RATIO)

\* lines 305-315: the holes in list order, from index i
RECURSIVE HoleScan(_, _, _, _, _)
HoleScan(i, b, hs, config, cellSize) ==
  IF i > Len(hs) THEN FALSE
  ELSE IF InHole(b, hs[i], config, cellSize) THEN TRUE
  ELSE HoleScan(i + 1, b, hs, config, cellSize)

\* Hazard with the holes scanned before the goal
HazardHolesFirst(b, maze, config, cellSize) ==
  IF HoleScan(1, b, maze.holes, config, cellSize) THEN [reset |-> TRUE, won |-> FALSE]
  ELSE IF InGoal(b, maze, config, cellSize)
       THEN [reset |-> FALSE, won |-> TRUE]
       ELSE [reset |-> FALSE, won |-> FALSE]

\* lines 289-317
Hazard(b, maze, config, cellSize) ==
  IF InGoal(b, maze, config, cellSize) THEN [reset |-> FALSE, won |-> TRUE]
  ELSE IF HoleScan(1, b, maze.holes, config, cellSize)
       THEN [reset |-> TRUE, won |-> FALSE]
       ELSE [reset |-> FALSE, won |-> FALSE]

\* the sweeps with the Y axis moved and resolved before the X axis
SweptYFirst(b, input, maze, config, cellSize, dt) ==
  LET ballRadius == Ratio(cellSize, config.BALL_RADIUS_RATIO)
  IN BoundsCheck(SweepX(SweepY(Integrate(b, input, config, dt),
                               maze, cellSize, ballRadius, dt),
                        maze, cellSize, ballRadius, dt),
                 maze, cellSize, ballRadius)

\* the ball after the sweeps and the bounds check (lines 76-187)
Swept(b, input, maze, config, cellSize, dt) ==
  LET ballRadius == Ratio(cellSize, config.BALL_RADIUS_RATIO)
  IN BoundsCheck(SweepY(SweepX(Integrate(b, input, config, dt),
                               maze, cellSize, ballRadius, dt),
                        maze, cellSize, ballRadius, dt),
                 maze, cellSize, ballRadius)

\* updateBall: every [ball, result] one call can leave
updateBall(b, input, maze, config, cellSize, dt) ==
  LET ballRadius == Ratio(cellSize, config.BALL_RADIUS_RATIO)
  IN {[ball |-> o, result |-> Hazard(o, maze, config, cellSize)] :
        o \in Penetration(Swept(b, input, maze, config, cellSize, dt),
                          maze, cellSize, ballRadius)}

\* resetBall
resetBall(cellSize) ==
  [x |-> cellSize \div 2, y |-> cellSize \div 2, vx |-> 0, vy |-> 0]

\* -------------------------------------------------------------- scenarios
\* main.ts CONFIG with LU = 3 px and TU = 0.05 s:
\* GRAVITY 1200 px/s^2 = 1 LU/TU^2, FRICTION 0.98, the ratios as <<num, den>>
CONFIG ==
  [GRAVITY |-> 1, FRICTION |-> <<98, 100>>, BALL_RADIUS_RATIO |-> <<3, 10>>,
   HOLE_RADIUS_RATIO |-> <<2, 10>>, GOAL_RADIUS_RATIO |-> <<3, 10>>]

\* the tests' testConfig with LU = 0.016 px and TU = 0.004 s:
\* GRAVITY 1000 px/s^2 = 1 LU/TU^2
testConfig ==
  [GRAVITY |-> 1, FRICTION |-> <<98, 100>>, BALL_RADIUS_RATIO |-> <<4, 10>>,
   HOLE_RADIUS_RATIO |-> <<3, 10>>, GOAL_RADIUS_RATIO |-> <<35, 100>>]

\* removeWall that clears only the current cell's side
removeWallOneSided(grid, current, next) ==
  LET dx == next.x - current.x
      dy == next.y - current.y
  IN IF dx = 1 THEN [grid EXCEPT ![current.y][current.x].walls.east = FALSE]
     ELSE IF dx = -1 THEN [grid EXCEPT ![current.y][current.x].walls.west = FALSE]
     ELSE IF dy = 1 THEN [grid EXCEPT ![current.y][current.x].walls.south = FALSE]
     ELSE IF dy = -1 THEN [grid EXCEPT ![current.y][current.x].walls.north = FALSE]
     ELSE grid

\* removeWall with the two sides mixed up: clears the far wall of the current
\* cell and the far wall of the next one
removeWallSwapped(grid, current, next) ==
  LET dx == next.x - current.x
      dy == next.y - current.y
  IN IF dx = 1
     THEN [grid EXCEPT ![current.y][current.x].walls.west = FALSE,
                       ![next.y][next.x].walls.east = FALSE]
     ELSE IF dx = -1
     THEN [grid EXCEPT ![current.y][current.x].walls.east = FALSE,
                       ![next.y][next.x].walls.west = FALSE]
     ELSE IF dy = 1
     THEN [grid EXCEPT ![current.y][current.x].walls.north = FALSE,
                       ![next.y][next.x].walls.south = FALSE]
     ELSE IF dy = -1
     THEN [grid EXCEPT ![current.y][current.x].walls.south = FALSE,
                       ![next.y][next.x].walls.north = FALSE]
     ELSE grid

\* removeWall that clears the current cell's side and, of the next cell, only
\* the side facing west or north
removeWallHalf(grid, current, next) ==
  LET dx == next.x - current.x
      dy == next.y - current.y
  IN IF dx = 1
     THEN [grid EXCEPT ![current.y][current.x].walls.east = FALSE,
                       ![next.y][next.x].walls.west = FALSE]
     ELSE IF dx = -1
     THEN [grid EXCEPT ![current.y][current.x].walls.west = FALSE]
     ELSE IF dy = 1
     THEN [grid EXCEPT ![current.y][current.x].walls.south = FALSE,
                       ![next.y][next.x].walls.north = FALSE]
     ELSE IF dy = -1
     THEN [grid EXCEPT ![current.y][current.x].walls.north = FALSE]
     ELSE grid

\* removeWall without the dy = -1 branch
removeWallNoNorth(grid, current, next) ==
  LET dx == next.x - current.x
      dy == next.y - current.y
  IN IF dx = 1
     THEN [grid EXCEPT ![current.y][current.x].walls.east = FALSE,
                       ![next.y][next.x].walls.west = FALSE]
     ELSE IF dx = -1
     THEN [grid EXCEPT ![current.y][current.x].walls.west = FALSE,
                       ![next.y][next.x].walls.east = FALSE]
     ELSE IF dy = 1
     THEN [grid EXCEPT ![current.y][current.x].walls.south = FALSE,
                       ![next.y][next.x].walls.north = FALSE]
     ELSE grid

\* removeWall(current, next) on the cell grid
removeWall(grid, current, next) ==
  LET dx == next.x - current.x
      dy == next.y - current.y
  IN IF dx = 1
     THEN [grid EXCEPT ![current.y][current.x].walls.east = FALSE,
                        ![next.y][next.x].walls.west = FALSE]
     ELSE IF dx = -1
     THEN [grid EXCEPT ![current.y][current.x].walls.west = FALSE,
                        ![next.y][next.x].walls.east = FALSE]
     ELSE IF dy = 1
     THEN [grid EXCEPT ![current.y][current.x].walls.south = FALSE,
                        ![next.y][next.x].walls.north = FALSE]
     ELSE IF dy = -1
     THEN [grid EXCEPT ![current.y][current.x].walls.north = FALSE,
                        ![next.y][next.x].walls.south = FALSE]
     ELSE grid

\* generateMaze lines 34-45: every wall closed
InitialCells(n) ==
  [y \in 0..n-1 |-> [x \in 0..n-1 |-> [x |-> x, y |-> y, walls |-> AllWalls]]]

\* the grid carved along one depth-first path (no backtracking needed)
RECURSIVE CarvePath(_, _, _)
CarvePath(grid, path, i) ==
  IF i >= Len(path) THEN grid
  ELSE CarvePath(removeWall(grid, path[i], path[i + 1]), path, i + 1)

P(x, y) == [x |-> x, y |-> y]

\* a 3x3 maze generateMaze can return: the path
\* (0,0) (0,1) (1,1) (1,0) (2,0) (2,1) (2,2) (1,2) (0,2), holes in (2,1), (0,2)
GameMaze ==
  [size |-> 3,
   cells |-> CarvePath(InitialCells(3),
                       <<P(0,0), P(0,1), P(1,1), P(1,0), P(2,0), P(2,1), P(2,2), P(1,2), P(0,2)>>,
                       1),
   holes |-> <<P(2,1), P(0,2)>>,
   goal |-> P(2, 2)]

\* the tests' maze: createTestMaze(3) with the holes the tests declare, and
\* one more in the goal cell
OpenMaze == [createTestMaze(3) EXCEPT !.holes = <<P(1,1), P(2,2)>>]

Tilts == {[tiltX |-> tx, tiltY |-> ty] : tx \in {-1, 0, 1}, ty \in {-1, 0, 1}}

CellCentres(n, cellSize) ==
  {[x |-> CellCentre(cx, cellSize), y |-> CellCentre(cy, cellSize), vx |-> 0, vy |-> 0] :
     cx \in 0..n-1, cy \in 0..n-1}

\* the game: cellSize 30 px, dt 0 (first frame), 0.05 s or 0.1 s (the cap)
GameScenario ==
  [name |-> "game", loop |-> "game", maze |-> GameMaze, config |-> CONFIG,
   cellSize |-> 10, tilts |-> Tilts, dts |-> {0, 1, 2}, capped |-> TRUE,
   starts |-> {resetBall(10)}]

OpenScenario ==
  [name |-> "open", loop |-> "test", maze |-> OpenMaze, config |-> CONFIG,
   cellSize |-> 10, tilts |-> Tilts, dts |-> {0, 1, 2}, capped |-> TRUE,
   starts |-> CellCentres(3, 10)]

\* Renderer3D.initialize: (hole.x + 0.5 + (hole.offsetX || 0)) * cellSize and
\* the same for y; the offsets are in tenths of a cell
DrawnCentre(hole, cellSize) ==
  LET offsetX == IF "offsetX" \in DOMAIN hole THEN hole.offsetX ELSE 0
      offsetY == IF "offsetY" \in DOMAIN hole THEN hole.offsetY ELSE 0
  IN [x |-> CellCentre(hole.x, cellSize) + (offsetX * cellSize) \div 10,
      y |-> CellCentre(hole.y, cellSize) + (offsetY * cellSize) \div 10]

\* generateMaze(2, 3, 2) of part_000: the cells of GameMaze, the holes (2,0)
\* with offsets (0.17, -0.18) and (1,2) with offsets (0.05, -0.22), to the
\* nearest tenth of a cell
OffsetMaze ==
  [GameMaze EXCEPT !.holes = <<[x |-> 2, y |-> 0, offsetX |-> 2, offsetY |-> -2],
                               [x |-> 1, y |-> 2, offsetX |-> 0, offsetY |-> -2]>>]

\* the points where the holes of maze are drawn, with a ball at rest on each
DrawnCentres(maze, cellSize) ==
  {[x |-> DrawnCentre(maze.holes[i], cellSize).x,
    y |-> DrawnCentre(maze.holes[i], cellSize).y, vx |-> 0, vy |-> 0] :
     i \in 1..Len(maze.holes)}

\* updateBall on that maze, from a ball at rest where a hole is drawn or in
\* the start cell
OffsetScenario ==
  [name |-> "offset", loop |-> "test", maze |-> OffsetMaze, config |-> CONFIG,
   cellSize |-> 10, tilts |-> Tilts, dts |-> {0, 1, 2}, capped |-> TRUE,
   starts |-> DrawnCentres(OffsetMaze, 10) \cup {resetBall(10)}]

BallRadius == Ratio(sc.cellSize, sc.config.BALL_RADIUS_RATIO)

SpeedOK(b) == sc.capped => Abs(b.vx) <= MaxSpeed /\ Abs(b.vy) <= MaxSpeed

NoResult == [reset |-> FALSE, won |-> FALSE]

\* the loop calls updateBall again: the game until it is won, a test with a
\* loop until the call returns reset or won, a test with one call ("once")
\* until it has made it
Live ==
  /\ ~result.won
  /\ sc.loop = "test" => ~result.reset
  /\ sc.loop = "once" => ~called

\* one frame that leaves the ball where updateBall put it, whatever it returns
StepNoReset ==
  /\ Live
  /\ \E input \in sc.tilts, dt \in sc.dts :
       /\ SpeedOK(Integrate(ball, input, sc.config, dt))
       /\ \E o \in updateBall(ball, input, sc.maze, sc.config, sc.cellSize, dt) :
            /\ ball' = o.ball
            /\ result' = o.result
  /\ called' = TRUE
  /\ UNCHANGED <<sc, loopVars, genVars>>

\* one frame: updateBall(ball, input, maze, config, cellSize, dt), and in the
\* game resetBall(ball, cellSize) when it returns reset; the won flag and the
\* message, which updateBall never reads, are followed by gameLoop below
Step ==
  /\ Live
  /\ \E input \in sc.tilts, dt \in sc.dts :
       /\ SpeedOK(Integrate(ball, input, sc.config, dt))
       /\ \E o \in updateBall(ball, input, sc.maze, sc.config, sc.cellSize, dt) :
            /\ ball' = IF sc.loop = "game" /\ o.result.reset
                       THEN resetBall(sc.cellSize) ELSE o.ball
            /\ result' = o.result
  /\ called' = TRUE
  /\ UNCHANGED <<sc, loopVars, genVars>>

\* ------------------------------------------------------------ InputManager
\* A tilt of the InputManager is kept in 1/900: dx / 100 is 9 * dx of these
\* and gamma / 45 is 20 * gamma, for whole pixels and whole degrees.
TiltOne == 900

\* the two InputManager classes: part_001 listens to the device orientation,
\* the one bundled in main.ts (lines 305-378) has no orientation input
Kinds == {"orientation", "touch"}

\* clientX / clientY of the pointer events, px
Coords == {0, 60, 100, 260}
Points == [x : Coords, y : Coords]

\* beta / gamma of an orientation event, degrees; <<>> is null
Angles == {<<>>, <<-180>>, <<-90>>, <<-20>>, <<0>>, <<30>>, <<45>>}

\* e.beta || 0
OrZero(a) == IF a = <<>> THEN 0 ELSE a[1]

\* the clamp forgotten
clampNone(value, min, max) == value

\* clamp(value, min, max)
clamp(value, min, max) == Max(min, Min(max, value))

\* new InputManager(canvas)
NewInputManager(kind) ==
  [kind |-> kind,
   input |-> [tiltX |-> 0, tiltY |-> 0],
   isDragging |-> FALSE,
   startPos |-> [x |-> 0, y |-> 0],
   orientationEnabled |-> FALSE]

\* getInput()
getInput == inputManager.input

\* the tilt of a drag from startPos to p
DragTilt(p) ==
  [tiltX |-> clamp(9 * (p.x - inputManager.startPos.x), -TiltOne, TiltOne),
   tiltY |-> clamp(9 * (p.y - inputManager.startPos.y), -TiltOne, TiltOne)]

NoTilt == [tiltX |-> 0, tiltY |-> 0]

InputUnchanged ==
  UNCHANGED <<sc, ball, result, called, won, message, messageLeft, genVars>>

mousedown(p) ==
  /\ inputManager' = [inputManager EXCEPT !.isDragging = TRUE, !.startPos = p]
  /\ InputUnchanged

mousemove(p) ==
  /\ inputManager.isDragging /\ ~inputManager.orientationEnabled
  /\ inputManager' = [inputManager EXCEPT !.input = DragTilt(p)]
  /\ InputUnchanged

mouseup ==
  /\ inputManager.isDragging /\ ~inputManager.orientationEnabled
  /\ inputManager' = [inputManager EXCEPT !.isDragging = FALSE, !.input = NoTilt]
  /\ InputUnchanged

touchstart(p) ==
  /\ ~inputManager.orientationEnabled
  /\ inputManager' = [inputManager EXCEPT !.isDragging = TRUE, !.startPos = p]
  /\ InputUnchanged

touchmove(p) ==
  /\ inputManager.isDragging /\ ~inputManager.orientationEnabled
  /\ inputManager' = [inputManager EXCEPT !.input = DragTilt(p)]
  /\ InputUnchanged

touchend ==
  /\ inputManager.isDragging /\ ~inputManager.orientationEnabled
  /\ inputManager' = [inputManager EXCEPT !.isDragging = FALSE, !.input = NoTilt]
  /\ InputUnchanged

\* part_001 only
deviceorientation(beta, gamma) ==
  /\ inputManager.kind = "orientation"
  /\ inputManager.orientationEnabled
  /\ inputManager' =
       [inputManager EXCEPT !.input =
          [tiltX |-> clamp(20 * OrZero(gamma), -TiltOne, TiltOne),
           tiltY |-> clamp(20 * OrZero(beta), -TiltOne, TiltOne)]]
  /\ InputUnchanged

\* part_001 only: enableOrientation() when the permission is granted or none
\* is needed; otherwise it changes nothing
enableOrientation ==
  /\ inputManager.kind = "orientation"
  /\ inputManager' = [inputManager EXCEPT !.orientationEnabled = TRUE]
  /\ InputUnchanged

\* main.ts lines 28-31 and 66: won = false, message = null, a new InputManager
LoopIdle ==
  /\ won = FALSE
  /\ message = "none"
  /\ messageLeft = 0
  /\ inputManager = NewInputManager("touch")

\* no generateMaze call is running: the scenario holds the maze
GenIdle ==
  /\ pc = "idle"
  /\ size = 0
  /\ holeCount = 0
  /\ cells = <<>>
  /\ stack = <<>>
  /\ visited = {}
  /\ holes = <<>>
  /\ usedPositions = {}
  /\ generated = <<>>
  /\ seed = 0
  /\ rng = AnySeed
  /\ first = NoCall
  /\ variant = "offsets"

InitIn(scenarios) ==
  /\ sc \in scenarios
  /\ ball \in sc.starts
  /\ result = NoResult
  /\ called = FALSE
  /\ LoopIdle
  /\ GenIdle

Init == InitIn({GameScenario})

Next == Step

Spec == Init /\ [][Next]_vars

\* a 2x2 maze generateMaze can return: carved east into the dead end (1,0),
\* back, then south and east to the goal; the hole in the dead end
LoopMaze ==
  [size |-> 2,
   cells |-> CarvePath(CarvePath(InitialCells(2), <<P(0,0), P(1,0)>>, 1),
                       <<P(0,0), P(0,1), P(1,1)>>, 1),
   holes |-> <<P(1,0)>>,
   goal |-> P(1, 1)]

\* the game on that maze with its frames' timestamps: a frame comes 0.1 s or
\* 0.5 s after the one before (gaps, in TU), tilted north, east, south or not
LoopScenario ==
  [name |-> "loop", loop |-> "game", maze |-> LoopMaze, config |-> CONFIG,
   cellSize |-> 10,
   tilts |-> {t \in Tilts : t.tiltX >= 0 /\ t.tiltX * t.tiltY = 0},
   dts |-> {0, 2}, gaps |-> {2, 10}, capped |-> TRUE,
   starts |-> {resetBall(10)}]

\* the frame calls updateBall whatever the won flag
PlayingAlways == TRUE

\* main.ts line 89: if (!won)
Playing == ~won

\* main.ts lines 80-109, one frame of the game: dt is 0 in the first frame
\* and the gap capped at 0.1 s = 2 TU afterwards; an expired message is
\* cleared; while not won updateBall is called, a win sets the flag, a reset
\* shows 'oof' for 1000 ms = 20 TU and calls resetBall
gameLoop ==
  \E gap \in sc.gaps :
    LET dt == IF called THEN Min(gap, 2) ELSE 0
        left == Max(0, messageLeft - gap)
        shown == IF message = "oof" /\ left = 0 THEN "none" ELSE message
    IN /\ IF Playing
          THEN \E input \in sc.tilts :
                 /\ SpeedOK(Integrate(ball, input, sc.config, dt))
                 /\ \E o \in updateBall(ball, input, sc.maze, sc.config, sc.cellSize, dt) :
                      /\ result' = o.result
                      /\ won' = (won \/ o.result.won)
                      /\ ball' = IF o.result.reset THEN resetBall(sc.cellSize) ELSE o.ball
                      /\ message' = IF o.result.reset THEN "oof" ELSE shown
                      /\ messageLeft' = IF o.result.reset THEN 20 ELSE left
          ELSE /\ message' = shown
               /\ messageLeft' = left
               /\ UNCHANGED <<ball, result, won>>
       /\ called' = TRUE
       /\ UNCHANGED <<sc, inputManager, genVars>>

InitLoop == InitIn({LoopScenario})

\* the events of the page reaching a new InputManager of either kind
InitInput ==
  /\ sc = LoopScenario
  /\ ball \in sc.starts
  /\ result = NoResult
  /\ called = FALSE
  /\ won = FALSE
  /\ message = "none"
  /\ messageLeft = 0
  /\ inputManager \in {NewInputManager(k) : k \in Kinds}
  /\ GenIdle

NextInput ==
  \/ \E p \in Points : mousedown(p)
  \/ \E p \in Points : mousemove(p)
  \/ mouseup
  \/ \E p \in Points : touchstart(p)
  \/ \E p \in Points : touchmove(p)
  \/ touchend
  \/ \E beta \in Angles, gamma \in Angles : deviceorientation(beta, gamma)
  \/ enableOrientation

SpecInput == InitInput /\ [][NextInput]_vars

\* main.ts line 108: every frame requests the next one, so that the frames
\* keep coming once the game is won
SpecLoop == InitLoop /\ [][gameLoop]_vars /\ WF_vars(~Playing /\ gameLoop)

InitOffset == InitIn({OffsetScenario})

SpecOffset == InitOffset /\ [][Next]_vars

InitOpen == InitIn({OpenScenario})

SpecOpen == InitOpen /\ [][Next]_vars

\* the wall-end tests: createTestMaze(3), cellSize 100 px = 6250 LU, one
\* closed wall pair, a constant tilt and a constant dt
\* (0.016 s = 4 TU, 0.1 s = 25 TU)
VerticalWallMaze ==
  SetWall(SetWall(createTestMaze(3), 0, 0, "east", TRUE), 1, 0, "west", TRUE)

HorizontalWallMaze ==
  SetWall(SetWall(createTestMaze(3), 0, 0, "south", TRUE), 0, 1, "north", TRUE)

CornerScenario(name, maze, tilt, dt, starts) ==
  [name |-> name, loop |-> "test", maze |-> maze, config |-> testConfig,
   cellSize |-> 6250, tilts |-> {tilt}, dts |-> {dt}, capped |-> FALSE, starts |-> starts]

AtRest(x, y) == [x |-> x, y |-> y, vx |-> 0, vy |-> 0]

\* centre on the wall x = 100 px, above its lower end, tilt down
DownScenario ==
  CornerScenario("down", VerticalWallMaze, [tiltX |-> 0, tiltY |-> 1], 4,
                 {AtRest(6250, 1250 + 625 * k) : k \in 0..7})

\* centre on the line x = 100 px below the wall's end, tilt up
UpScenario(dt) ==
  CornerScenario("up", VerticalWallMaze, [tiltX |-> 0, tiltY |-> -1], dt,
                 {AtRest(6250, 9375 + 625 * k) : k \in 0..3})

\* centre on the line y = 100 px east of the wall's end, tilt west
WestScenario(dt) ==
  CornerScenario("west", HorizontalWallMaze, [tiltX |-> -1, tiltY |-> 0], dt,
                 {AtRest(9375 + 625 * k, 6250) : k \in 0..3})

\* the wall tests that make one call: createTestMaze(3) with the east wall of
\* (0,0) closed, balls at 50 px and 80 px (the second overlaps the wall) with
\* the tests' velocities 0, 100 and 500 px/s, every tilt, dt 0, 0.016 s, 0.1 s
OnceScenario ==
  [name |-> "once", loop |-> "once", maze |-> VerticalWallMaze, config |-> testConfig,
   cellSize |-> 6250, tilts |-> Tilts, dts |-> {0, 4, 25}, capped |-> FALSE,
   starts |-> {[x |-> x, y |-> 3125, vx |-> vx, vy |-> vy] :
                 x \in {3125, 5000}, vx \in {-125, 0, 25, 125}, vy \in {0, 25}}]

InitOnce == InitIn({OnceScenario})

SpecOnce == InitOnce /\ [][Next]_vars

InitCorner ==
  InitIn({DownScenario, UpScenario(4), UpScenario(25), WestScenario(4), WestScenario(25)})

SpecCorner == InitCorner /\ [][Next]_vars

\* ---------------------------------------------------------- generateMaze
\* rng.nextInt and rng.nextFloat are drawn nondeterministically: every seed's
\* sequence of draws is one of the sequences explored.

\* key(x, y): the string `${x},${y}`, kept as the pair
key(x, y) == <<x, y>>

\* lines 53-63: north, east, south, west, inside the grid
getNeighbors(cell) ==
  LET x == cell.x
      y == cell.y
  IN (IF y > 0 THEN <<cells[y - 1][x]>> ELSE <<>>)
     \o (IF x < size - 1 THEN <<cells[y][x + 1]>> ELSE <<>>)
     \o (IF y < size - 1 THEN <<cells[y + 1][x]>> ELSE <<>>)
     \o (IF x > 0 THEN <<cells[y][x - 1]>> ELSE <<>>)

\* the neighbours, visited or not
UnvisitedAll(cell) == getNeighbors(cell)

\* lines 91-93: the neighbours not yet visited
Unvisited(cell) ==
  SelectSeq(getNeighbors(cell), LAMBDA n : key(n.x, n.y) \notin visited)

\* lines 111-136
isAdjacentWithoutWall(x1, y1, x2, y2) ==
  LET dx == Abs(x2 - x1)
      dy == Abs(y2 - y1)
  IN IF ~((dx = 1 /\ dy = 0) \/ (dx = 0 /\ dy = 1)) THEN FALSE
     ELSE IF x2 = x1 + 1 THEN ~cells[y1][x1].walls.east
     ELSE IF x2 = x1 - 1 THEN ~cells[y1][x1].walls.west
     ELSE IF y2 = y1 + 1 THEN ~cells[y1][x1].walls.south
     ELSE IF y2 = y1 - 1 THEN ~cells[y1][x1].walls.north
     ELSE FALSE

\* the repository's two generateMaze: src/unnamed/part_000 (adjacency check and
\* offsets) and src/maze.ts (neither)
Variants == {"offsets", "plain"}

\* usedPositions.has(pos) with the goal cell not reserved
UsedExceptGoal(pos) == pos \in usedPositions \ {key(size - 1, size - 1)}

\* usedPositions.has(pos) with the start cell not reserved
UsedExceptStart(pos) == pos \in usedPositions \ {key(0, 0)}

\* line 142: usedPositions.has(pos)
Used(pos) == pos \in usedPositions

\* lines 145-151: some placed hole is adjacent to (x, y) without a wall
hasAdjacentHole(x, y) ==
  \E i \in 1..Len(holes) : isAdjacentWithoutWall(x, y, holes[i].x, holes[i].y)

\* lines 95-99: an unvisited neighbour exists; open the wall to the one the
\* rng picks, mark it, push it
CarvePush ==
  /\ pc = "carve"
  /\ stack # <<>>
  /\ LET current == stack[Len(stack)]
         neighbors == Unvisited(current)
     IN /\ Len(neighbors) > 0
        /\ \E d \in nextInt(rng, Len(neighbors)) :
             LET next == neighbors[d.v + 1] IN
             /\ cells' = removeWall(cells, current, next)
             /\ visited' = visited \cup {key(next.x, next.y)}
             /\ stack' = Append(stack, P(next.x, next.y))
             /\ rng' = d.rng
  /\ UNCHANGED <<pc, size, holeCount, holes, usedPositions, generated, seed, first, variant, physVars>>

\* the backtracker popping whether or not an unvisited neighbour is left
CarvePopEarly ==
  /\ pc = "carve"
  /\ stack # <<>>
  /\ stack' = SubSeq(stack, 1, Len(stack) - 1)
  /\ UNCHANGED <<pc, size, holeCount, cells, visited, holes, usedPositions, generated,
                 seed, rng, first, variant, physVars>>

\* lines 100-102: no unvisited neighbour; pop
CarvePop ==
  /\ pc = "carve"
  /\ stack # <<>>
  /\ Len(Unvisited(stack[Len(stack)])) = 0
  /\ stack' = SubSeq(stack, 1, Len(stack) - 1)
  /\ UNCHANGED <<pc, size, holeCount, cells, visited, holes, usedPositions, generated,
                 seed, rng, first, variant, physVars>>

\* lines 105-109: the stack is empty; reserve start and goal
BeginHoles ==
  /\ pc = "carve"
  /\ stack = <<>>
  /\ pc' = "holes"
  /\ holes' = <<>>
  /\ usedPositions' = {key(0, 0), key(size - 1, size - 1)}
  /\ UNCHANGED <<size, holeCount, cells, stack, visited, generated, seed, rng, first, variant, physVars>>

\* part_000 lines 138-162, maze.ts lines 109-118: one iteration of the
\* placement loop. Only part_000 rejects a cell next to a hole through an open
\* passage and draws the two offsets; maze.ts pushes { x, y }
PlaceHole ==
  /\ pc = "holes"
  /\ Len(holes) < holeCount
  /\ \E x \in nextInt(rng, size) : \E y \in nextInt(x.rng, size) :
       IF Used(key(x.v, y.v)) \/ (variant = "offsets" /\ hasAdjacentHole(x.v, y.v))
       THEN /\ rng' = y.rng
            /\ UNCHANGED <<holes, usedPositions>>
       ELSE IF variant = "plain"
       THEN /\ holes' = Append(holes, P(x.v, y.v))
            /\ usedPositions' = usedPositions \cup {key(x.v, y.v)}
            /\ rng' = y.rng
       ELSE \E offsetX \in nextFloat(y.rng) : \E offsetY \in nextFloat(offsetX.rng) :
              /\ holes' = Append(holes, [x |-> x.v, y |-> y.v,
                                         offsetX |-> offsetX.v, offsetY |-> offsetY.v])
              /\ usedPositions' = usedPositions \cup {key(x.v, y.v)}
              /\ rng' = offsetY.rng
  /\ UNCHANGED <<pc, size, holeCount, cells, stack, visited, generated, seed, first, variant,
                 physVars>>

\* lines 164-167
Return ==
  /\ pc = "holes"
  /\ Len(holes) >= holeCount
  /\ pc' = "done"
  /\ generated' = [size |-> size, cells |-> cells, holes |-> holes,
                   goal |-> P(size - 1, size - 1)]
  /\ UNCHANGED <<size, holeCount, cells, stack, visited, holes, usedPositions,
                 seed, rng, first, variant, physVars>>

\* generateMaze(seed, size, holeCount) at line 89: the grid is closed, the
\* start cell is pushed and visited
InitGen ==
  /\ size \in 1..MaxSize
  /\ holeCount \in 0..MaxHoles
  /\ pc = "carve"
  /\ cells = InitialCells(size)
  /\ stack = <<P(0, 0)>>
  /\ visited = {key(0, 0)}
  /\ holes = <<>>
  /\ usedPositions = {}
  /\ generated = <<>>
  /\ seed = 0
  /\ rng = AnySeed
  /\ first = NoCall
  /\ variant \in Variants
  /\ sc = <<>>
  /\ ball = resetBall(0)
  /\ result = NoResult
  /\ called = FALSE
  /\ LoopIdle

NextGen == CarvePush \/ CarvePop \/ BeginHoles \/ PlaceHole \/ Return

SpecGen == InitGen /\ [][NextGen]_vars

\* generateMaze(seed, size, holeCount) with holeCount 0 or 1: the calls that
\* place at most one hole after the carving
InitCarve == InitGen /\ holeCount \in {0, 1}

SpecCarve == InitCarve /\ [][NextGen]_vars

\* lines 91-103: generateMaze is straight-line code in one thread, so the
\* while loop of the backtracker keeps taking iterations while its condition
\* holds, and the statements after it run once the stack is empty
SpecCarveFair == SpecCarve /\ WF_vars(CarvePush \/ CarvePop \/ BeginHoles)

\* generateMaze(seed, size, holeCount) with up to MaxHoles + 1 holes, more than
\* the smaller grids have room for; size * size * holeCount, the least number
\* of cells the placement loop has to look at, is kept within twice the
\* largest grid
InitPlace ==
  /\ size \in 1..MaxSize
  /\ holeCount \in 0..MaxHoles + 1
  /\ size * size * holeCount <= 2 * MaxSize * MaxSize
  /\ pc = "carve"
  /\ cells = InitialCells(size)
  /\ stack = <<P(0, 0)>>
  /\ visited = {key(0, 0)}
  /\ holes = <<>>
  /\ usedPositions = {}
  /\ generated = <<>>
  /\ seed = 0
  /\ rng = AnySeed
  /\ first = NoCall
  /\ variant \in Variants
  /\ sc = <<>>
  /\ ball = resetBall(0)
  /\ result = NoResult
  /\ called = FALSE
  /\ LoopIdle

SpecPlace == InitPlace /\ [][NextGen]_vars

\* generateMaze(seed, size, holeCount) with no hole or with 2 * size - 1 holes:
\* more than a grid of 1 or 4 cells has room for, and more than some of the
\* 3 x 3 mazes can hold under the adjacency check; size * size * holeCount is
\* kept within five times the largest grid
InitTight ==
  /\ size \in 1..MaxSize
  /\ holeCount \in {0, 2 * size - 1}
  /\ size * size * holeCount <= 5 * MaxSize * MaxSize
  /\ pc = "carve"
  /\ cells = InitialCells(size)
  /\ stack = <<P(0, 0)>>
  /\ visited = {key(0, 0)}
  /\ holes = <<>>
  /\ usedPositions = {}
  /\ generated = <<>>
  /\ seed = 0
  /\ rng = AnySeed
  /\ first = NoCall
  /\ variant \in Variants
  /\ sc = <<>>
  /\ ball = resetBall(0)
  /\ result = NoResult
  /\ called = FALSE
  /\ LoopIdle

SpecTight == InitTight /\ [][NextGen]_vars

\* generateMaze(seed, size, holeCount) asked for as many holes as a maze of
\* one winding corridor can hold: every second cell between start and goal
InitHalf ==
  /\ size \in 1..MaxSize
  /\ holeCount = (size * size - 1) \div 2
  /\ size * size * holeCount <= 4 * MaxSize * MaxSize
  /\ pc = "carve"
  /\ cells = InitialCells(size)
  /\ stack = <<P(0, 0)>>
  /\ visited = {key(0, 0)}
  /\ holes = <<>>
  /\ usedPositions = {}
  /\ generated = <<>>
  /\ seed = 0
  /\ rng = AnySeed
  /\ first = NoCall
  /\ variant \in Variants
  /\ sc = <<>>
  /\ ball = resetBall(0)
  /\ result = NoResult
  /\ called = FALSE
  /\ LoopIdle

SpecHalf == InitHalf /\ [][NextGen]_vars

\* lines 31-87: generateMaze(seed, size, holeCount) is entered, for the first
\* time or again with the same arguments: a new generator, a closed grid, the
\* start cell pushed and visited
Call ==
  /\ pc = "idle" \/ (pc = "done" /\ ~first.called)
  /\ first' = IF pc = "done" THEN [called |-> TRUE, maze |-> generated, rng |-> rng]
                              ELSE first
  /\ rng' = seedRNG(seed)
  /\ pc' = "carve"
  /\ cells' = InitialCells(size)
  /\ stack' = <<P(0, 0)>>
  /\ visited' = {key(0, 0)}
  /\ holes' = <<>>
  /\ usedPositions' = {}
  /\ generated' = <<>>
  /\ UNCHANGED <<seed, size, holeCount, variant, physVars>>

\* two calls with one seed out of 0..MaxSeed and a hole count the grid has
\* room for
InitDet ==
  /\ seed \in 0..MaxSeed
  /\ size \in 1..MaxSize
  /\ holeCount \in 0..MaxHoles
  /\ holeCount <= Max(0, size * size - 2)
  /\ pc = "idle"
  /\ cells = <<>>
  /\ stack = <<>>
  /\ visited = {}
  /\ holes = <<>>
  /\ usedPositions = {}
  /\ generated = <<>>
  /\ rng = AnySeed
  /\ first = NoCall
  /\ variant \in Variants
  /\ sc = <<>>
  /\ ball = resetBall(0)
  /\ result = NoResult
  /\ called = FALSE
  /\ LoopIdle

NextDet == Call \/ CarvePush \/ CarvePop \/ BeginHoles \/ PlaceHole \/ Return

SpecDet == InitDet /\ [][NextDet]_vars

\* ----------------------------------------------------------------- properties
CellOf(b) == P(Floor(b.x, sc.cellSize), Floor(b.y, sc.cellSize))

InGrid(c) == c.x \in 0..sc.maze.size-1 /\ c.y \in 0..sc.maze.size-1

Adjacent(a, c) == Abs(a.x - c.x) + Abs(a.y - c.y) = 1

\* the wall pair between the orthogonally adjacent cells a and c is open
PairOpen(a, c) ==
  LET ca == sc.maze.cells[a.y][a.x].walls
      cc == sc.maze.cells[c.y][c.x].walls
  IN IF c.x = a.x + 1 THEN ~ca.east /\ ~cc.west
     ELSE IF c.x = a.x - 1 THEN ~ca.west /\ ~cc.east
     ELSE IF c.y = a.y + 1 THEN ~ca.south /\ ~cc.north
     ELSE ~ca.north /\ ~cc.south

\* the outcomes of the call the loop can make next with this input and dt
CallsOf(input, dt) ==
  IF Live THEN updateBall(ball, input, sc.maze, sc.config, sc.cellSize, dt) ELSE {}

World == sc.maze.size * sc.cellSize

\* C1: no tunnelling - a call that takes the ball's centre from a cell to an
\* orthogonally adjacent cell does so only through an open wall pair.
C1_NoTunnelling ==
  \A input \in sc.tilts, dt \in sc.dts : \A o \in CallsOf(input, dt) :
    (InGrid(CellOf(ball)) /\ InGrid(CellOf(o.ball)) /\ Adjacent(CellOf(ball), CellOf(o.ball)))
      => PairOpen(CellOf(ball), CellOf(o.ball))

\* C3: in the 3x3 maze whose only wall is x = 100 px, y in [0, 100] px, a ball
\* that starts on that wall and is tilted down with dt = 0.016 s never has
\* its centre beyond y = 100 px + ballRadius.
C3_CornerContainment ==
  sc.name = "down" => ball.y <= sc.cellSize + BallRadius

\* C4: a ball on the line of a wall beyond its end, driven along the line
\* towards the end, never has its centre inside the span of the wall.
C4_WallEndBlocks ==
  /\ sc.name = "up" => ball.y > sc.cellSize
  /\ sc.name = "west" => ball.x > sc.cellSize

\* x axis: a closed east (west) wall of a cell in the ball's row that
\* the leading edge is at or before, and that the motion of the call would
\* carry it past, leaves x <= wallX - r (x >= wallX + r) and vx = 0.
C2_StopX(input, dt) ==
  LET m == Integrate(ball, input, sc.config, dt)
      newX == ball.x + m.vx * dt
      row == Floor(ball.y, sc.cellSize)
  IN \A cx \in 0..sc.maze.size-1 : \A o \in CallsOf(input, dt) :
       /\ (/\ row \in 0..sc.maze.size-1
           /\ m.vx > 0
           /\ sc.maze.cells[row][cx].walls.east
           /\ ball.x + BallRadius <= (cx + 1) * sc.cellSize
           /\ newX + BallRadius > (cx + 1) * sc.cellSize)
          => (o.ball.x <= (cx + 1) * sc.cellSize - BallRadius /\ o.ball.vx = 0)
       /\ (/\ row \in 0..sc.maze.size-1
           /\ m.vx < 0
           /\ sc.maze.cells[row][cx].walls.west
           /\ ball.x - BallRadius >= cx * sc.cellSize
           /\ newX - BallRadius < cx * sc.cellSize)
          => (o.ball.x >= cx * sc.cellSize + BallRadius /\ o.ball.vx = 0)

\* y axis: the same for the south and north walls of the cells in the
\* column of the ball (its x as the X sweep left it).
C2_StopY(input, dt) ==
  LET m == Integrate(ball, input, sc.config, dt)
      newY == ball.y + m.vy * dt
      col == Floor(SweepX(m, sc.maze, sc.cellSize, BallRadius, dt).x, sc.cellSize)
  IN \A cy \in 0..sc.maze.size-1 : \A o \in CallsOf(input, dt) :
       /\ (/\ col \in 0..sc.maze.size-1
           /\ m.vy > 0
           /\ sc.maze.cells[cy][col].walls.south
           /\ ball.y + BallRadius <= (cy + 1) * sc.cellSize
           /\ newY + BallRadius > (cy + 1) * sc.cellSize)
          => (o.ball.y <= (cy + 1) * sc.cellSize - BallRadius /\ o.ball.vy = 0)
       /\ (/\ col \in 0..sc.maze.size-1
           /\ m.vy < 0
           /\ sc.maze.cells[cy][col].walls.north
           /\ ball.y - BallRadius >= cy * sc.cellSize
           /\ newY - BallRadius < cy * sc.cellSize)
          => (o.ball.y >= cy * sc.cellSize + BallRadius /\ o.ball.vy = 0)

\* C2: straight-wall stop - a closed wall of a cell in the ball's row (column)
\* that the ball's leading edge is at or before, and that the call's motion
\* would carry the edge past, leaves the edge at the wall and that axis's
\* velocity 0, in each of the four directions.
C2_StraightWallStop ==
  \A input \in sc.tilts, dt \in sc.dts : C2_StopX(input, dt) /\ C2_StopY(input, dt)

\* C5: in a maze with no closed wall, a call whose moved ball stays inside
\* the world bounds leaves exactly the old position plus the integrated
\* velocity times dt, and the integrated velocity.
C5_OpenPassage ==
  \A input \in sc.tilts, dt \in sc.dts :
    LET m == Integrate(ball, input, sc.config, dt)
        moved == [m EXCEPT !.x = ball.x + m.vx * dt, !.y = ball.y + m.vy * dt]
    IN (/\ moved.x - BallRadius >= 0 /\ moved.x + BallRadius <= World
        /\ moved.y - BallRadius >= 0 /\ moved.y + BallRadius <= World)
       => \A o \in CallsOf(input, dt) : o.ball = moved

\* the ball crossed a cell boundary of the open maze in the last call, moving
C5_Witness ==
  /\ called
  /\ sc.name = "open"
  /\ ball.vx > 0
  /\ ball.x > sc.cellSize /\ ball.x - ball.vx <= sc.cellSize
  /\ ball.x + BallRadius < World

\* the ball is inside the world bounds
InBounds(b) ==
  /\ BallRadius <= b.x /\ b.x <= World - BallRadius
  /\ BallRadius <= b.y /\ b.y <= World - BallRadius

\* a call leaves the ball inside the world bounds, and one whose bounds check
\* fires on an axis leaves the ball's edge exactly on that boundary with that
\* axis's velocity 0
C6_Clamp(input, dt) ==
  LET m == Integrate(ball, input, sc.config, dt)
      sw == SweepY(SweepX(m, sc.maze, sc.cellSize, BallRadius, dt),
                   sc.maze, sc.cellSize, BallRadius, dt)
  IN \A o \in CallsOf(input, dt) :
       /\ InBounds(o.ball)
       /\ sw.x - BallRadius < 0 => (o.ball.x = BallRadius /\ o.ball.vx = 0)
       /\ sw.x + BallRadius > World => (o.ball.x = World - BallRadius /\ o.ball.vx = 0)
       /\ sw.y - BallRadius < 0 => (o.ball.y = BallRadius /\ o.ball.vy = 0)
       /\ sw.y + BallRadius > World => (o.ball.y = World - BallRadius /\ o.ball.vy = 0)

\* C6: world-bounds invariant - after every call the ball is inside the world
\* bounds, and a bounds clamp leaves the edge exactly on the boundary with
\* that axis's velocity 0.
C6_WorldBounds ==
  /\ InBounds(ball)
  /\ \A input \in sc.tilts, dt \in sc.dts : C6_Clamp(input, dt)

InSomeHole(b) ==
  \E i \in 1..Len(sc.maze.holes) : InHole(b, sc.maze.holes[i], sc.config, sc.cellSize)

\* C7: goal priority - a call whose final position is inside the goal's and
\* some hole's trigger radius returns won = true, reset = false.
C7_GoalPriority ==
  (called /\ InGoal(ball, sc.maze, sc.config, sc.cellSize) /\ InSomeHole(ball))
    => result = [reset |-> FALSE, won |-> TRUE]

\* a call ended inside both radii
C7_Witness ==
  called /\ InGoal(ball, sc.maze, sc.config, sc.cellSize) /\ InSomeHole(ball) /\ result.won

ZeroTilt == [tiltX |-> 0, tiltY |-> 0]

\* the point ((c.x + 0.5) * cellSize, (c.y + 0.5) * cellSize), at rest
RestingAtCentre(b, c) ==
  /\ 2 * b.x = (2 * c.x + 1) * sc.cellSize
  /\ 2 * b.y = (2 * c.y + 1) * sc.cellSize
  /\ b.vx = 0 /\ b.vy = 0

\* C8: with zero velocity and zero tilt, a ball at the exact centre of the
\* goal cell returns won, and one at the exact centre of a hole outside the
\* goal's radius returns reset.
C8_Exactness ==
  \A dt \in sc.dts : \A o \in CallsOf(ZeroTilt, dt) :
    /\ RestingAtCentre(ball, sc.maze.goal)
         => o.result = [reset |-> FALSE, won |-> TRUE]
    /\ \A i \in 1..Len(sc.maze.holes) :
         (RestingAtCentre(ball, sc.maze.holes[i])
            /\ ~InGoal(ball, sc.maze, sc.config, sc.cellSize))
         => o.result = [reset |-> TRUE, won |-> FALSE]

\* a zero-tilt call has returned for a ball resting on a hole's (the goal's)
\* centre
C8_WitnessHole ==
  /\ called /\ result.reset
  /\ RestingAtCentre(ball, sc.maze.holes[1])

C8_WitnessGoal ==
  /\ called /\ result.won
  /\ RestingAtCentre(ball, sc.maze.goal)

\* the cells one open wall pair away from cell c of maze m
OpenNeighbours(m, c) ==
  {d \in {P(c.x + 1, c.y), P(c.x - 1, c.y), P(c.x, c.y + 1), P(c.x, c.y - 1)} :
     /\ d.x \in 0..m.size-1 /\ d.y \in 0..m.size-1
     /\ LET wc == m.cells[c.y][c.x].walls
            wd == m.cells[d.y][d.x].walls
        IN IF d.x = c.x + 1 THEN ~wc.east /\ ~wd.west
           ELSE IF d.x = c.x - 1 THEN ~wc.west /\ ~wd.east
           ELSE IF d.y = c.y + 1 THEN ~wc.south /\ ~wd.north
           ELSE ~wc.north /\ ~wd.south}

\* flood fill over open wall pairs: seen so far, and the cells added last
RECURSIVE Flood(_, _, _)
Flood(m, seen, frontier) ==
  IF frontier = {} THEN seen
  ELSE Flood(m, seen \cup frontier,
             UNION {OpenNeighbours(m, c) : c \in frontier} \ (seen \cup frontier))

AllCells(m) == {P(x, y) : x \in 0..m.size-1, y \in 0..m.size-1}

\* the open wall pairs of maze m: those to the east and those to the south
OpenPairsEast(m) ==
  {c \in AllCells(m) : c.x + 1 < m.size /\ ~m.cells[c.y][c.x].walls.east
                       /\ ~m.cells[c.y][c.x + 1].walls.west}

OpenPairsSouth(m) ==
  {c \in AllCells(m) : c.y + 1 < m.size /\ ~m.cells[c.y][c.x].walls.south
                       /\ ~m.cells[c.y + 1][c.x].walls.north}

\* C9: every cell of the returned maze is reachable from (0,0) through open
\* wall pairs.
C9_Connectivity ==
  pc = "done" => Flood(generated, {}, {P(0, 0)}) = AllCells(generated)

\* a maze was returned whose passages branch: the carving backtracked to a
\* cell and went on from it
C9_Witness ==
  /\ pc = "done"
  /\ \E c \in AllCells(generated) : Cardinality(OpenNeighbours(generated, c)) >= 3

\* C10: the returned maze has exactly size*size - 1 open wall pairs.
C10_SpanningTreeCount ==
  pc = "done" =>
    Cardinality(OpenPairsEast(generated)) + Cardinality(OpenPairsSouth(generated))
      = generated.size * generated.size - 1

\* a returned maze in which the carving went north at least once
C10_Witness ==
  /\ pc = "done"
  /\ \E c \in AllCells(generated) :
       c.y > 0 /\ c.x > 0 /\ P(c.x, c.y - 1) \in OpenNeighbours(generated, c)

\* the facing wall flags of every pair of orthogonally adjacent cells of the
\* n x n grid agree
Symmetric(grid, n) ==
  \A x \in 0..n-1, y \in 0..n-1 :
    /\ x + 1 < n => grid[y][x].walls.east = grid[y][x + 1].walls.west
    /\ y + 1 < n => grid[y][x].walls.south = grid[y + 1][x].walls.north

\* C11: wall symmetry - after every removeWall call of the generation, and in
\* the returned maze, the two facing wall flags of every pair of orthogonally
\* adjacent cells are equal.
C11_WallSymmetry ==
  /\ pc \in {"carve", "holes", "done"} => Symmetric(cells, size)
  /\ pc = "done" => Symmetric(generated.cells, generated.size)

\* a wall was opened towards the west and one towards the north
C11_Witness ==
  /\ pc = "carve"
  /\ \E x \in 1..size-1, y \in 0..size-1 : ~cells[y][x].walls.west
  /\ \E x \in 0..size-1, y \in 1..size-1 : ~cells[y][x].walls.north

\* the outward-facing walls of the cells on the edge of the n x n grid are
\* closed
EdgesClosed(grid, n) ==
  \A k \in 0..n-1 :
    /\ grid[0][k].walls.north /\ grid[n - 1][k].walls.south
    /\ grid[k][0].walls.west /\ grid[k][n - 1].walls.east

\* C12: boundary walls - carving never opens a wall towards a position outside
\* the grid, and in the returned maze every cell on the edge has its
\* outward-facing wall closed.
C12_BoundaryWalls ==
  /\ pc \in {"carve", "holes", "done"} => EdgesClosed(cells, size)
  /\ pc = "done" => EdgesClosed(generated.cells, generated.size)

\* a maze was returned in which the passage reaches each of the four edges
C12_Witness ==
  /\ pc = "done" /\ generated.size >= 3
  /\ \E k \in 0..size-1 : ~generated.cells[0][k].walls.south
  /\ \E k \in 0..size-1 : ~generated.cells[size - 1][k].walls.north
  /\ \E k \in 0..size-1 : ~generated.cells[k][0].walls.east
  /\ \E k \in 0..size-1 : ~generated.cells[k][size - 1].walls.west

\* C13: determinism - a second call generateMaze(seed, size, holeCount) with
\* the arguments of the first returns the same walls, the same hole cells in
\* the same order and the same offsets, and leaves its generator in the same
\* state.
C13_Determinism ==
  (pc = "done" /\ first.called) => (generated = first.maze /\ rng = first.rng)

\* the second call has returned a maze with holes, carved with draws among
\* several neighbours
C13_Witness ==
  /\ pc = "done" /\ first.called
  /\ generated.size >= 3 /\ Len(generated.holes) >= 2

\* s is t or t with entries appended
IsPrefix(s, t) == Len(s) <= Len(t) /\ SubSeq(t, 1, Len(s)) = s

HoleCells(hs) == {key(hs[i].x, hs[i].y) : i \in 1..Len(hs)}

\* C14: hole set - the returned maze has exactly holeCount holes, in pairwise
\* distinct cells, none of them the start cell or the goal cell, and during
\* placement an accepted hole is never removed or moved.
C14_HoleSet ==
  [][/\ pc = "holes" => IsPrefix(holes, holes')
     /\ pc' = "done" =>
          /\ Len(generated'.holes) = holeCount
          /\ Cardinality(HoleCells(generated'.holes)) = holeCount
          /\ key(0, 0) \notin HoleCells(generated'.holes)
          /\ key(size - 1, size - 1) \notin HoleCells(generated'.holes)]_vars

\* a maze with two holes was returned, one of them next to the goal cell
C14_Witness ==
  /\ pc = "done" /\ holeCount = 2 /\ Len(generated.holes) = 2
  /\ key(size - 1, size - 2) \in HoleCells(generated.holes)

\* no two of the holes hs lie in orthogonally adjacent cells of the grid with
\* the wall pair between them open
NoOpenAdjacentHoles(hs, grid) ==
  \A i, j \in 1..Len(hs) :
    LET a == hs[i]
        b == hs[j]
    IN /\ (b.x = a.x + 1 /\ b.y = a.y)
            => (grid[a.y][a.x].walls.east \/ grid[b.y][b.x].walls.west)
       /\ (b.y = a.y + 1 /\ b.x = a.x)
            => (grid[a.y][a.x].walls.south \/ grid[b.y][b.x].walls.north)

\* C15: hole adjacency - after every accepted placement and in the returned
\* maze, no two holes lie in orthogonally adjacent cells whose shared wall
\* pair is open, whichever of the two was placed first.
C15_HoleAdjacency ==
  /\ pc = "holes" => NoOpenAdjacentHoles(holes, cells)
  /\ pc = "done" => NoOpenAdjacentHoles(generated.holes, generated.cells)

\* the number of open wall pairs of the n x n grid
Openings(grid, n) ==
  LET m == [size |-> n, cells |-> grid]
  IN Cardinality(OpenPairsEast(m)) + Cardinality(OpenPairsSouth(m))

\* C16: carving termination - for every size and every random sequence the
\* backtracker loop ends. Every iteration either pushes one cell, marks one
\* more cell visited and opens one more wall pair, or pops one cell and opens
\* nothing; so the pushes (the start included) are as many as the visited
\* cells. When the loop is left the stack is empty, all size*size cells are
\* visited (size*size pushes) and size*size - 1 wall pairs are open.
C16_CarvingTermination ==
  /\ [][pc = "carve" =>
          \/ /\ Len(stack') = Len(stack) + 1
             /\ Cardinality(visited') = Cardinality(visited) + 1
             /\ Openings(cells', size) = Openings(cells, size) + 1
          \/ /\ Len(stack') = Len(stack) - 1
             /\ UNCHANGED <<visited, cells>>
          \/ /\ pc' = "holes"
             /\ UNCHANGED <<stack, visited, cells>>]_vars
  /\ [](pc = "holes" =>
          /\ stack = <<>>
          /\ visited = {key(x, y) : x \in 0..size-1, y \in 0..size-1}
          /\ Cardinality(visited) = size * size
          /\ Openings(cells, size) = size * size - 1)
  /\ <>(pc # "carve")

\* the loop was left on a grid of at least 3 x 3 cells, after it backtracked
\* to a cell and went on from it
C16_Witness ==
  /\ pc = "holes" /\ size >= 3 /\ stack = <<>>
  /\ \E c \in AllCells([size |-> size, cells |-> cells]) :
       Cardinality(OpenNeighbours([size |-> size, cells |-> cells], c)) >= 3

\* the cells other than the start cell and the goal cell
FreeCells ==
  AllCells([size |-> size, cells |-> cells]) \ {P(0, 0), P(size - 1, size - 1)}

\* the placement loop's constraints allow holes in all the cells of S together:
\* with the adjacency check no two of them are joined by an open wall
Compatible(S) ==
  variant = "offsets" =>
    \A a, b \in S : ~isAdjacentWithoutWall(a.x, a.y, b.x, b.y)

\* k cells of the carved maze can hold holes under the constraints
CanHold(k) ==
  \E S \in SUBSET FreeCells : Cardinality(S) = k /\ Compatible(S)

\* holeCount exceeds the number of cells that can hold holes
Infeasible == ~CanHold(holeCount)

\* C17 as stated: if holeCount exceeds the number of cells that can hold holes
\* under the constraints, in particular if holeCount > size*size - 2, the
\* placed holes never reach holeCount and generateMaze never returns.
C17_InfeasibleAsStated ==
  (pc \in {"holes", "done"} /\ (Infeasible \/ holeCount > size * size - 2))
    => (pc = "holes" /\ Len(holes) < holeCount)

\* C17: infeasible hole count - if holeCount exceeds the number of cells that
\* can hold holes under the constraints for the carved maze, in particular if
\* holeCount > size*size - 2 and holeCount > 0, the placement loop never ends:
\* the placed holes stay fewer than holeCount, generateMaze does not return,
\* and the loop can always take another iteration (nothing stops it).
C17_InfeasibleHoleCount ==
  (pc \in {"holes", "done"}
     /\ (Infeasible \/ (holeCount > size * size - 2 /\ holeCount > 0)))
    => (pc = "holes" /\ Len(holes) < holeCount /\ ENABLED PlaceHole)

\* the adjacency check alone makes holeCount infeasible: the grid has enough
\* cells besides start and goal, and the loop is one hole short
C17_Witness ==
  /\ pc = "holes" /\ variant = "offsets"
  /\ holeCount <= size * size - 2
  /\ Infeasible
  /\ Len(holes) = holeCount - 1

\* C18: reset after a hole - in the game, a frame whose updateBall call
\* returned reset (the game not won) ends with the ball at
\* (cellSize/2, cellSize/2) with velocity (0,0) and with the maze, the
\* configuration and the cell size as they were; the loop goes on, so the next
\* updateBall call starts from the centre of cell (0,0) at rest.
C18_ResetAfterHole ==
  [][(sc.loop = "game" /\ result'.reset) =>
       /\ ~result'.won
       /\ 2 * ball'.x = sc.cellSize /\ 2 * ball'.y = sc.cellSize
       /\ ball'.vx = 0 /\ ball'.vy = 0
       /\ DOMAIN ball' = {"x", "y", "vx", "vy"}
       /\ sc' = sc
       /\ Live']_vars

\* a frame of the game just returned reset and the ball is back at the start
C18_Witness ==
  /\ sc.loop = "game" /\ called /\ result.reset
  /\ ball = resetBall(sc.cellSize)

\* C19: hole trigger centre - a ball at rest, with zero tilt, at the point
\* where a hole with offsets is drawn,
\* ((x + 0.5 + offsetX) * cellSize, (y + 0.5 + offsetY) * cellSize), returns
\* reset: updateBall takes that point as the hole's collision centre.
C19_HoleTriggerCentre ==
  \A dt \in sc.dts : \A o \in CallsOf(ZeroTilt, dt) :
    \A i \in 1..Len(sc.maze.holes) :
      LET hole == sc.maze.holes[i]
          drawn == DrawnCentre(hole, sc.cellSize)
      IN ("offsetX" \in DOMAIN hole /\ ball.x = drawn.x /\ ball.y = drawn.y
             /\ ball.vx = 0 /\ ball.vy = 0)
           => o.result.reset

SetMax(S) == CHOOSE m \in S : \A k \in S : k <= m

SetMin(S) == CHOOSE m \in S : \A k \in S : m <= k

\* x axis: the closed walls of the ball's row that the leading edge is at or
\* before and that the motion of the call carries it past; with more than one
\* of them the X sweep leaves the ball at the one nearest its old position
C20_NearestX(input, dt) ==
  LET m == Integrate(ball, input, sc.config, dt)
      newX == ball.x + m.vx * dt
      row == Floor(ball.y, sc.cellSize)
      swept == SweepX(m, sc.maze, sc.cellSize, BallRadius, dt)
      east == {cx \in 0..sc.maze.size-1 :
                 /\ m.vx > 0
                 /\ sc.maze.cells[row][cx].walls.east
                 /\ ball.x + BallRadius <= (cx + 1) * sc.cellSize
                 /\ newX + BallRadius > (cx + 1) * sc.cellSize}
      west == {cx \in 0..sc.maze.size-1 :
                 /\ m.vx < 0
                 /\ sc.maze.cells[row][cx].walls.west
                 /\ ball.x - BallRadius >= cx * sc.cellSize
                 /\ newX - BallRadius < cx * sc.cellSize}
  IN row \in 0..sc.maze.size-1 =>
       /\ Cardinality(east) > 1 =>
            (swept.x = (SetMin(east) + 1) * sc.cellSize - BallRadius /\ swept.vx = 0)
       /\ Cardinality(west) > 1 =>
            (swept.x = SetMax(west) * sc.cellSize + BallRadius /\ swept.vx = 0)

\* y axis: the same in the column of the ball as the X sweep left it
C20_NearestY(input, dt) ==
  LET m == Integrate(ball, input, sc.config, dt)
      newY == ball.y + m.vy * dt
      sweptX == SweepX(m, sc.maze, sc.cellSize, BallRadius, dt)
      col == Floor(sweptX.x, sc.cellSize)
      swept == SweepY(sweptX, sc.maze, sc.cellSize, BallRadius, dt)
      south == {cy \in 0..sc.maze.size-1 :
                  /\ m.vy > 0
                  /\ sc.maze.cells[cy][col].walls.south
                  /\ ball.y + BallRadius <= (cy + 1) * sc.cellSize
                  /\ newY + BallRadius > (cy + 1) * sc.cellSize}
      north == {cy \in 0..sc.maze.size-1 :
                  /\ m.vy < 0
                  /\ sc.maze.cells[cy][col].walls.north
                  /\ ball.y - BallRadius >= cy * sc.cellSize
                  /\ newY - BallRadius < cy * sc.cellSize}
  IN col \in 0..sc.maze.size-1 =>
       /\ Cardinality(south) > 1 =>
            (swept.y = (SetMin(south) + 1) * sc.cellSize - BallRadius /\ swept.vy = 0)
       /\ Cardinality(north) > 1 =>
            (swept.y = SetMax(north) * sc.cellSize + BallRadius /\ swept.vy = 0)

\* C20: the sweep stops at the nearest wall - when the motion of one call on
\* an axis crosses more than one closed wall of the ball's row (column), the
\* sweep clamps the ball at the one nearest its old position, for west and
\* north motion as for east and south motion.
C20_SweepNearestWall ==
  Live => \A input \in sc.tilts, dt \in sc.dts :
            C20_NearestX(input, dt) /\ C20_NearestY(input, dt)

\* the closed wall edges of the maze as segments <<x1, y1, x2, y2>>, the end
\* points updateBall passes to circleLineCollision (lines 203-206, 224-227,
\* 244-247, 264-267)
ClosedSegments(maze, cellSize) ==
  UNION {LET cell == maze.cells[cy][cx]
             cellX == cx * cellSize
             cellY == cy * cellSize
         IN (IF cell.walls.north
             THEN {<<cellX, cellY, cellX + cellSize, cellY>>} ELSE {})
            \cup (IF cell.walls.south
                  THEN {<<cellX, cellY + cellSize, cellX + cellSize, cellY + cellSize>>}
                  ELSE {})
            \cup (IF cell.walls.west
                  THEN {<<cellX, cellY, cellX, cellY + cellSize>>} ELSE {})
            \cup (IF cell.walls.east
                  THEN {<<cellX + cellSize, cellY, cellX + cellSize, cellY + cellSize>>}
                  ELSE {})
         : cx \in 0..maze.size-1, cy \in 0..maze.size-1}

\* the squared distance from the centre of b to the segment seg
SegDistSq(b, seg) ==
  circleLineCollision(b.x, b.y, 0, seg[1], seg[2], seg[3], seg[4]).distSq

\* C21: no residual overlap - after every updateBall call the distance from
\* the ball's centre to every closed wall edge of the maze is at least the
\* ball radius (less one length unit, the rounding of the pushed position).
C21_NoResidualOverlap ==
  \A input \in sc.tilts, dt \in sc.dts : \A o \in CallsOf(input, dt) :
    \A seg \in ClosedSegments(sc.maze, sc.cellSize) :
      SegDistSq(o.ball, seg) >= (BallRadius - 1) * (BallRadius - 1)

\* the closed east walls of the ball's row that the call's motion m carries
\* the leading edge past, by the index of their cell
EastCrossed(m, dt) ==
  LET row == Floor(ball.y, sc.cellSize)
  IN IF m.vx > 0 /\ row \in 0..sc.maze.size-1
     THEN {cx \in 0..sc.maze.size-1 :
             /\ sc.maze.cells[row][cx].walls.east
             /\ ball.x + BallRadius <= (cx + 1) * sc.cellSize
             /\ ball.x + m.vx * dt + BallRadius > (cx + 1) * sc.cellSize}
     ELSE {}

\* the closed south walls of column col that the motion m carries the leading
\* edge past
SouthCrossed(m, dt, col) ==
  IF m.vy > 0 /\ col \in 0..sc.maze.size-1
  THEN {cy \in 0..sc.maze.size-1 :
          /\ sc.maze.cells[cy][col].walls.south
          /\ ball.y + BallRadius <= (cy + 1) * sc.cellSize
          /\ ball.y + m.vy * dt + BallRadius > (cy + 1) * sc.cellSize}
  ELSE {}

\* C22: step ordering - on a diagonal approach (east and south) to a closed
\* east wall, the X axis is resolved first: vx ends at 0, and the Y sweep
\* tests the column of the clamped x, wall - radius. With no closed south wall
\* crossed in that column y advances; with one crossed vy ends at 0.
C22_StepOrdering ==
  \A input \in sc.tilts, dt \in sc.dts :
    LET m == Integrate(ball, input, sc.config, dt)
        east == EastCrossed(m, dt)
        clampedX == (SetMin(east) + 1) * sc.cellSize - BallRadius
        south == SouthCrossed(m, dt, Floor(clampedX, sc.cellSize))
    IN (east # {} /\ m.vy > 0 /\ dt > 0) =>
         \A o \in CallsOf(input, dt) :
           /\ o.ball.vx = 0
           /\ south = {} => o.ball.y > ball.y
           /\ south # {} => o.ball.vy = 0

\* after some call the ball is about to cross a closed east wall and, in the
\* same call, the line into the next row, where the way east is open: the
\* call stops it at the wall and lets y advance
C22_Witness ==
  /\ called
  /\ \E input \in sc.tilts, dt \in sc.dts :
       LET m == Integrate(ball, input, sc.config, dt)
           east == EastCrossed(m, dt)
           row == Floor(ball.y, sc.cellSize)
           newRow == Floor(ball.y + m.vy * dt, sc.cellSize)
       IN /\ east # {} /\ m.vy > 0
          /\ newRow = row + 1 /\ newRow < sc.maze.size
          /\ ~sc.maze.cells[newRow][SetMin(east)].walls.east
          /\ \E o \in CallsOf(input, dt) : o.ball.vx = 0 /\ o.ball.y > ball.y

\* v is (v0 + tilt * GRAVITY * dt) * FRICTION to the nearest unit
Integrated(v, v0, tilt, dt) ==
  LET f == sc.config.FRICTION
  IN 2 * Abs(f[2] * v - (v0 + tilt * sc.config.GRAVITY * dt) * f[1]) <= f[2]

\* b is at least the ball radius away from every closed wall edge
OverlapsNoWall(b) ==
  \A seg \in ClosedSegments(sc.maze, sc.cellSize) :
    SegDistSq(b, seg) >= BallRadius * BallRadius

\* C23: integration - after a call each velocity component is
\* (v + tilt * GRAVITY * dt) * FRICTION, friction once whatever dt is, unless a
\* wall zeroed it, and a component that was not zeroed moved the ball by the
\* new velocity times dt; a call with dt = 0 on a ball inside the world that
\* overlaps no wall leaves the position unchanged and scales the velocity by
\* FRICTION.
C23_Integration ==
  \A input \in sc.tilts, dt \in sc.dts : \A o \in CallsOf(input, dt) :
    /\ o.ball.vx = 0 \/ Integrated(o.ball.vx, ball.vx, input.tiltX, dt)
    /\ o.ball.vy = 0 \/ Integrated(o.ball.vy, ball.vy, input.tiltY, dt)
    /\ o.ball.vx # 0 => o.ball.x = ball.x + o.ball.vx * dt
    /\ o.ball.vy # 0 => o.ball.y = ball.y + o.ball.vy * dt
    /\ (dt = 0 /\ InBounds(ball) /\ OverlapsNoWall(ball)) =>
         /\ o.ball.x = ball.x /\ o.ball.y = ball.y
         /\ Integrated(o.ball.vx, ball.vx, input.tiltX, 0)
         /\ Integrated(o.ball.vy, ball.vy, input.tiltY, 0)

\* a call slowed a ball that keeps moving east at more than 100 px/s
C23_Witness ==
  /\ sc.name = "once" /\ called
  /\ ball.vx > 25 /\ ball.vx < 125 /\ ball.vy = 0

\* the balls the penetration pass can leave when it tests the closed edge seg
\* against ball b: north and south edges zero vy, east and west edges vx
Pushed(b, seg) ==
  PenWall(b, BallRadius, seg[1], seg[2], seg[3], seg[4],
          IF seg[2] = seg[4] THEN "vy" ELSE "vx")

\* the pass pushes b out of seg: the circle overlaps the segment
Overlaps(b, seg) == SegDistSq(b, seg) < BallRadius * BallRadius

AtRadiusFrom(o, b, px, py) ==
  LET lenSq == (o.x - px) * (o.x - px) + (o.y - py) * (o.y - py)
  IN /\ Abs(lenSq - BallRadius * BallRadius) <= 2 * BallRadius
     /\ (o.x - px) * (b.x - px) >= 0
     /\ (o.y - py) * (b.y - py) >= 0
     /\ b.x = px => o.x = px
     /\ b.y = py => o.y = py

C25_WonAbsorbing ==
  /\ ~won
  /\ [][won => (won' /\ ball' = ball /\ result' = result)]_vars
  /\ [][(won /\ message = "oof") =>
          /\ message' \in {"oof", "none"}
          /\ messageLeft' < messageLeft \/ messageLeft' = 0
          /\ message' = "none" <=> messageLeft' = 0]_vars
  /\ []((won /\ message = "oof") => <>(won /\ message = "none"))

\* the game was won while the 'oof' message of an earlier reset was showing
C25_Witness ==
  /\ sc.name = "loop" /\ won /\ result.won /\ message = "oof" /\ messageLeft > 0

\* C26: tilt range - after any sequence of mouse, touch and orientation
\* events, with orientation enabled or not, both tilts getInput returns are
\* in [-1, 1]; and while no drag is in progress and orientation input is
\* disabled both are 0.
C26_TiltRange ==
  /\ getInput.tiltX \in -TiltOne..TiltOne
  /\ getInput.tiltY \in -TiltOne..TiltOne
  /\ (~inputManager.isDragging /\ ~inputManager.orientationEnabled) => getInput = NoTilt

\* a drag of more than 100 px right and up with orientation disabled: both
\* tilts clamped
C26_Witness ==
  /\ inputManager.isDragging /\ ~inputManager.orientationEnabled
  /\ getInput = [tiltX |-> TiltOne, tiltY |-> -TiltOne]
  /\ inputManager.startPos = [x |-> 60, y |-> 260]

\* the grid being carved, as a maze
Carving == [size |-> size, cells |-> cells]

Dirs == {"north", "east", "south", "west"}

\* the position one step from c in direction d
Toward(c, d) ==
  IF d = "north" THEN P(c.x, c.y - 1)
  ELSE IF d = "east" THEN P(c.x + 1, c.y)
  ELSE IF d = "south" THEN P(c.x, c.y + 1)
  ELSE P(c.x - 1, c.y)

\* the stack during the carving loop: distinct visited cells from (0,0), each
\* an open wall pair away from the one before
StackIsPath ==
  pc = "carve" =>
    /\ \A i, j \in 1..Len(stack) : i # j => stack[i] # stack[j]
    /\ \A i \in 1..Len(stack) : key(stack[i].x, stack[i].y) \in visited
    /\ stack # <<>> => stack[1] = P(0, 0)
    /\ \A i \in 1..Len(stack) - 1 :
         /\ Abs(stack[i + 1].x - stack[i].x) + Abs(stack[i + 1].y - stack[i].y) = 1
         /\ stack[i + 1] \in OpenNeighbours(Carving, stack[i])

\* a step that changes a wall pushes a cell next to the top of the stack that
\* was unvisited, and opens exactly the walls between the two
OpensToUnvisited ==
  cells' # cells =>
    /\ pc = "carve" /\ stack # <<>> /\ Len(stack') = Len(stack) + 1
    /\ LET current == stack[Len(stack)]
           next == stack'[Len(stack')]
       IN /\ key(current.x, current.y) \in visited
          /\ key(next.x, next.y) \notin visited
          /\ key(next.x, next.y) \in visited'
          /\ \A c \in AllCells(Carving) : \A d \in Dirs :
               cells'[c.y][c.x].walls[d] # cells[c.y][c.x].walls[d] =>
                 /\ cells[c.y][c.x].walls[d] /\ ~cells'[c.y][c.x].walls[d]
                 /\ \/ c = current /\ Toward(c, d) = next
                    \/ c = next /\ Toward(c, d) = current
          /\ next \in OpenNeighbours([size |-> size, cells |-> cells'], current)

\* C27: carving invariant - at every iteration of the backtracker loop the
\* stack is a sequence of pairwise distinct visited cells starting at (0,0)
\* whose consecutive cells are grid-adjacent and joined by an open wall pair;
\* a wall pair is only ever opened between the top of the stack and a cell
\* unvisited just before, never between two visited cells.
C27_CarvingInvariant == []StackIsPath /\ [][OpensToUnvisited]_vars

\* in a 3x3 grid the backtracker has popped back to a cell that has a visited
\* neighbour behind a closed wall and an unvisited neighbour to open next
C27_Witness ==
  /\ pc = "carve" /\ size = 3 /\ Len(stack) >= 2
  /\ Cardinality(visited) > Len(stack)
  /\ LET top == stack[Len(stack)]
     IN /\ Len(Unvisited(top)) > 0
        /\ \E i \in 1..Len(getNeighbors(top)) :
             LET n == getNeighbors(top)[i]
             IN /\ key(n.x, n.y) \in visited
                /\ P(n.x, n.y) \notin OpenNeighbours(Carving, top)

\* the placement loop would accept cell c: not used, and with the adjacency
\* check not an open wall away from a placed hole
Acceptable(c) ==
  /\ ~Used(key(c.x, c.y))
  /\ variant = "offsets" => ~hasAdjacentHole(c.x, c.y)

\* C28: hole placement progress - whenever some set of holeCount cells
\* satisfying the hole constraints exists for the generated maze, every state
\* of the placement loop with fewer than holeCount holes placed has a cell
\* that is still acceptable, so the loop can place another hole.
C28_PlacementProgress ==
  (pc = "holes" /\ CanHold(holeCount) /\ Len(holes) < holeCount)
    => \E c \in FreeCells : Acceptable(c)

====
